---- MODULE Spec2Model ----
(***************************************************************************)
(* A model of buildDesignSystem (packages/tailwindcss/src/design-system.ts) *)
(* : the memoizing parse caches, the compiled-AST cache with its failure   *)
(* containment, the variant order resolver and the batch facade            *)
(* candidatesToCss.                                                        *)
(*                                                                         *)
(* Objects have identity.  An object made by the n-th invocation of an     *)
(* external collaborator on some input carries that n in its "gen" field,  *)
(* so two invocations on the same input yield two distinct objects, as     *)
(* two evaluations of parseCandidate(...) or Array.from(...) do.           *)
(***************************************************************************)
EXTENDS Integers, Sequences, FiniteSets, TLC

VARIABLES
    parsedVariants,     \* DefaultMap string -> Variant | null, in insertion order
    parsedCandidates,   \* DefaultMap string -> Candidate[]
    compiledAstNodes,   \* DefaultMap Candidate -> node[]
    nodeValue,          \* the heap of AST nodes: node -> declaration
    trackedValues,      \* DefaultMap raw value -> true (the trackUsedVariables cache)
    usedVariables,      \* the theme: variable -> how often markUsedVariable got it
    calls,              \* how often each collaborator was invoked, per input
    firstResult,        \* per parse operation and string, the first result returned
    variantOrders,      \* the maps the latest two getVariantOrder calls returned
    last                \* the latest public call: operation, argument, outcome

vars == <<parsedVariants, parsedCandidates, compiledAstNodes, nodeValue,
          trackedValues, usedVariables, calls, firstResult, variantOrders, last>>

----------------------------------------------------------------------------
(* Bounds and input sets *)

\* No action starts once a collaborator has been invoked this often on one input.
MaxCalls == 2

\* The longest batch handed to candidatesToCss.
MaxBatch == 2

ClassNames == {"bg-[theme(--c)]", "text-[theme(--x)]", "[--v:]", "garbage-!!"}

VariantStrings == {"md", "hover", "focus", "lg", "??"}

\* The raw CSS values handed to trackUsedVariables
RawValues == {"var(--a, var(--b, red))", "calc(--c + var(--a))", "--d red",
              "var(-x, calc(--b * 2))", "var(--a) var(--a)"}

\* The longest path handed to resolveThemeValue, counted in pieces.
MaxPath == 4

\* A path is a string, kept as the sequence of its pieces: the character "/",
\* a white-space character, or a run of other characters
PathPieces == {"--c", "--e", "/", " ", "50%"}

Paths == UNION {[1..n -> PathPieces] : n \in 0..MaxPath}

\* null and undefined; a string value (objects, null and undefined are records)
Null == [kind |-> "null"]
Undefined == [kind |-> "undefined"]
Str(text) == [kind |-> "string", text |-> text]

----------------------------------------------------------------------------
(* The collaborators, by their contracts *)

\* theme.get: the immutable theme handed to buildDesignSystem
Theme == [k \in {"--c", "--e"} |-> IF k = "--c" THEN "red" ELSE ""]

\* candidate.ts parseCandidate: the structures a class name parses into
\* (zero for an unparseable one, two for an ambiguous one)
ParseCandidateExt(s) ==
    CASE s = "bg-[theme(--c)]" -> <<"color", "size">>
      [] s = "text-[theme(--x)]" -> <<"color">>
      [] s = "[--v:]" -> <<"arbitrary">>
      [] OTHER -> <<>>

\* candidate.ts parseVariant: a Variant object, or null for no match
ParseVariantExt(s, gen) ==
    IF s = "??" THEN Null ELSE [kind |-> "variant", str |-> s, gen |-> gen]

\* A Candidate object: the k-th structure of the gen-th parse of class name s
Candidate(s, k, gen) ==
    [kind |-> "candidate", str |-> s, alt |-> ParseCandidateExt(s)[k], gen |-> gen]

\* A declaration with a literal value, and one whose value is a theme(key)
\* call (fn names the key; "" when the value holds no call)
Lit(prop, v) == [prop |-> prop, fn |-> "", val |-> v]
Fn(prop, key) == [prop |-> prop, fn |-> key, val |-> "theme(" \o key \o ")"]

\* compile.ts compileAstNodes: the raw declarations of a candidate's nodes;
\* semantic invalidity is the empty sequence
CompileExt(c) ==
    CASE c.str = "bg-[theme(--c)]" /\ c.alt = "color" -> <<Fn("background-color", "--c")>>
      [] c.str = "text-[theme(--x)]" -> <<Fn("color", "--c"), Fn("font-size", "--x")>>
      [] c.str = "[--v:]" -> <<Lit("--v", "")>>
      [] OTHER -> <<>>

----------------------------------------------------------------------------
(* Evaluation *)

\* Body applied to the value of x, which is computed once
Let(x, Body(_)) == CHOOSE out \in {Body(v) : v \in {x}} : TRUE

----------------------------------------------------------------------------
(* DefaultMap *)

\* DefaultMap.get finds a stored value, whatever it is ([] and null included)
DefaultMapHas(map, key) == key \in DOMAIN map

\* Map.set on a map kept as a function
MapSet(map, key, value) ==
    [k \in DOMAIN map \cup {key} |-> IF k = key THEN value ELSE map[k]]

\* The keys of an insertion-ordered map kept as a sequence of <<key, value>>
SeqKeys(entries) == {entries[i][1] : i \in 1..Len(entries)}

SeqLookup(entries, key) ==
    entries[CHOOSE i \in 1..Len(entries) : entries[i][1] = key][2]

----------------------------------------------------------------------------
(* The parse caches *)

\* let parsedVariants = new DefaultMap((variant) => parseVariant(variant, designSystem))
ParsedVariantsFactory(s, gen) == ParseVariantExt(s, gen)

\* let parsedCandidates = new DefaultMap((candidate) =>
\*     Array.from(parseCandidate(candidate, designSystem)))
ParsedCandidatesFactory(s, gen) ==
    [kind |-> "array", str |-> s, gen |-> gen,
     items |-> [k \in 1..Len(ParseCandidateExt(s)) |-> Candidate(s, k, gen)]]

\* The design-system state the operations thread through
State == [parsedVariants |-> parsedVariants, parsedCandidates |-> parsedCandidates,
          compiledAstNodes |-> compiledAstNodes, nodeValue |-> nodeValue,
          calls |-> calls]

Bump(f, key) == MapSet(f, key, (IF key \in DOMAIN f THEN f[key] ELSE 0) + 1)

Count(f, key) == IF key \in DOMAIN f THEN f[key] ELSE 0

\* A lookup that parses on every request
ParsedCandidatesGetFresh(st, s) ==
    LET gen == Count(st.calls.parseCandidate, s) + 1
        value == ParsedCandidatesFactory(s, gen)
    IN [st |-> [st EXCEPT !.parsedCandidates = MapSet(@, s, value),
                          !.calls.parseCandidate = Bump(@, s)],
        ret |-> value, hit |-> FALSE]

\* parsedCandidates.get(candidate): [st, ret, hit]
ParsedCandidatesGet(st, s) ==
    IF DefaultMapHas(st.parsedCandidates, s)
    THEN [st |-> st, ret |-> st.parsedCandidates[s], hit |-> TRUE]
    ELSE LET gen == Count(st.calls.parseCandidate, s) + 1
             value == ParsedCandidatesFactory(s, gen)
         IN [st |-> [st EXCEPT !.parsedCandidates = MapSet(@, s, value),
                               !.calls.parseCandidate = Bump(@, s)],
             ret |-> value, hit |-> FALSE]

\* A lookup that takes a stored null for a missing entry
ParsedVariantsGetRetryNull(st, s) ==
    IF s \in SeqKeys(st.parsedVariants) /\ SeqLookup(st.parsedVariants, s) # Null
    THEN [st |-> st, ret |-> SeqLookup(st.parsedVariants, s), hit |-> TRUE]
    ELSE LET gen == Count(st.calls.parseVariant, s) + 1
             value == ParsedVariantsFactory(s, gen)
         IN [st |-> [st EXCEPT !.parsedVariants =
                                   IF s \in SeqKeys(@) THEN @ ELSE Append(@, <<s, value>>),
                               !.calls.parseVariant = Bump(@, s)],
             ret |-> value, hit |-> FALSE]

\* parsedVariants.get(variant): [st, ret, hit]
ParsedVariantsGet(st, s) ==
    IF s \in SeqKeys(st.parsedVariants)
    THEN [st |-> st, ret |-> SeqLookup(st.parsedVariants, s), hit |-> TRUE]
    ELSE LET gen == Count(st.calls.parseVariant, s) + 1
             value == ParsedVariantsFactory(s, gen)
         IN [st |-> [st EXCEPT !.parsedVariants = Append(@, <<s, value>>),
                               !.calls.parseVariant = Bump(@, s)],
             ret |-> value, hit |-> FALSE]

----------------------------------------------------------------------------
(* The compiled-AST cache *)

\* The i-th node object made by the gen-th compilation of candidate c
Node(c, i, gen) == [kind |-> "node", cand |-> c, idx |-> i, gen |-> gen]

\* css-functions.ts substituteFunctions on one declaration: a theme(key) call
\* becomes the theme's value; it throws when the theme has no such key
CanSubstitute(decl) == decl.fn = "" \/ decl.fn \in DOMAIN Theme

Substituted(decl) ==
    IF decl.fn = "" THEN decl ELSE [decl EXCEPT !.fn = "", !.val = Theme[decl.fn]]

\* substituteFunctions(nodes, designSystem): rewrites the nodes in place, one
\* after the other, and throws at the first call it cannot resolve:
\* [heap, threw]
RECURSIVE SubstituteFrom(_, _, _)
SubstituteFrom(nodes, i, heap) ==
    IF i > Len(nodes) THEN [heap |-> heap, threw |-> FALSE]
    ELSE IF ~CanSubstitute(heap[nodes[i]]) THEN [heap |-> heap, threw |-> TRUE]
    ELSE LET Rest(h) == SubstituteFrom(nodes, i + 1, h)
         IN Let([heap EXCEPT ![nodes[i]] = Substituted(heap[nodes[i]])], Rest)

SubstituteFunctions(nodes, heap) == SubstituteFrom(nodes, 1, heap)

\* A catch block that keeps the compiler's nodes
AfterSubstitutionKeep(ast, threw) == [ret |-> ast, threw |-> FALSE]

\* No catch block: the failure leaves the factory
AfterSubstitutionRethrow(ast, threw) ==
    IF threw THEN [ret |-> Undefined, threw |-> TRUE] ELSE [ret |-> ast, threw |-> FALSE]

\* try { substituteFunctions(...) } catch (err) { return [] }  return ast
\* The outcome of the factory given the compiler's nodes and what the
\* substitution did: [ret, threw]
AfterSubstitution(ast, threw) ==
    IF threw THEN [ret |-> <<>>, threw |-> FALSE] ELSE [ret |-> ast, threw |-> FALSE]

\* A compiler that hands out the same node objects for every candidate
CompiledAstNodesFactoryShared(st, c) ==
    LET raw == CompileExt(c)
        ast == [i \in 1..Len(raw) |-> Node(Null, i, 0)]
        fresh == {ast[i] : i \in 1..Len(ast)}
        heap == [n \in DOMAIN st.nodeValue \cup fresh |->
                    IF n \in fresh THEN raw[n.idx] ELSE st.nodeValue[n]]
        Finish(sub) ==
            LET out == AfterSubstitution(ast, sub.threw)
            IN [st |-> [st EXCEPT !.nodeValue = sub.heap,
                                  !.calls.compileAstNodes = Bump(@, c),
                                  !.calls.substituteFunctions = Bump(@, c)],
                ret |-> out.ret, threw |-> out.threw]
    IN Let(SubstituteFunctions(ast, heap), Finish)

\* let compiledAstNodes = new DefaultMap<Candidate>((candidate) => { ... }):
\* [st, ret, threw]
CompiledAstNodesFactory(st, c) ==
    LET gen == Count(st.calls.compileAstNodes, c) + 1
        raw == CompileExt(c)
        ast == [i \in 1..Len(raw) |-> Node(c, i, gen)]
        fresh == {ast[i] : i \in 1..Len(ast)}
        heap == [n \in DOMAIN st.nodeValue \cup fresh |->
                    IF n \in fresh THEN raw[n.idx] ELSE st.nodeValue[n]]
        Finish(sub) ==
            LET out == AfterSubstitution(ast, sub.threw)
            IN [st |-> [st EXCEPT !.nodeValue = sub.heap,
                                  !.calls.compileAstNodes = Bump(@, c),
                                  !.calls.substituteFunctions = Bump(@, c)],
                ret |-> out.ret, threw |-> out.threw]
    IN Let(SubstituteFunctions(ast, heap), Finish)

\* A cache filed under the candidate's string
CacheKeyByString(c) == [kind |-> "candidate", str |-> c.str]

\* The key under which compiledAstNodes files a candidate: the object itself
CacheKey(c) == c

\* A cache that holds the latest entry only
CompiledAstNodesGetEvicting(st, c) ==
    IF DefaultMapHas(st.compiledAstNodes, CacheKey(c))
    THEN [st |-> st, ret |-> st.compiledAstNodes[CacheKey(c)], hit |-> TRUE,
          threw |-> FALSE]
    ELSE LET Store(f) ==
                 IF f.threw
                 THEN [st |-> f.st, ret |-> Undefined, hit |-> FALSE, threw |-> TRUE]
                 ELSE [st |-> [f.st EXCEPT !.compiledAstNodes =
                                               MapSet(<<>>, CacheKey(c), f.ret)],
                       ret |-> f.ret, hit |-> FALSE, threw |-> FALSE]
         IN Let(CompiledAstNodesFactory(st, c), Store)

\* compiledAstNodes.get(candidate): [st, ret, hit, threw]; a factory that
\* throws leaves no entry
CompiledAstNodesGet(st, c) ==
    IF DefaultMapHas(st.compiledAstNodes, CacheKey(c))
    THEN [st |-> st, ret |-> st.compiledAstNodes[CacheKey(c)], hit |-> TRUE,
          threw |-> FALSE]
    ELSE LET Store(f) ==
                 IF f.threw
                 THEN [st |-> f.st, ret |-> Undefined, hit |-> FALSE, threw |-> TRUE]
                 ELSE [st |-> [f.st EXCEPT !.compiledAstNodes =
                                               MapSet(@, CacheKey(c), f.ret)],
                       ret |-> f.ret, hit |-> FALSE, threw |-> FALSE]
         IN Let(CompiledAstNodesFactory(st, c), Store)

----------------------------------------------------------------------------
(* The batch facade *)

\* compile.ts compileCandidates([className], this, { onInvalidCandidate }):
\* resolves the class through the parse cache and each of its candidates
\* through the compiled-AST cache, and fires the callback when the class
\* yields no node: [st, astNodes, invalid, threw]
RECURSIVE CompileFrom(_, _, _, _)
CompileFrom(st, cands, k, astNodes) ==
    IF k > Len(cands)
    THEN [st |-> st, astNodes |-> astNodes, invalid |-> astNodes = <<>>,
          threw |-> FALSE]
    ELSE LET Rest(r) ==
                 IF r.threw
                 THEN [st |-> r.st, astNodes |-> <<>>, invalid |-> FALSE,
                       threw |-> TRUE]
                 ELSE CompileFrom(r.st, cands, k + 1, astNodes \o r.ret)
         IN Let(CompiledAstNodesGet(st, cands[k]), Rest)

CompileCandidates(st, className) ==
    LET Compile(p) == CompileFrom(p.st, p.ret.items, 1, <<>>)
    IN Let(ParsedCandidatesGet(st, className), Compile)

\* ast.ts optimizeAst: new nodes, without the declarations that have no value
RECURSIVE OptimizeFrom(_, _, _)
OptimizeFrom(astNodes, i, heap) ==
    IF i > Len(astNodes) THEN <<>>
    ELSE (IF heap[astNodes[i]].val = "" THEN <<>> ELSE <<heap[astNodes[i]]>>)
         \o OptimizeFrom(astNodes, i + 1, heap)

OptimizeAst(astNodes, heap) == OptimizeFrom(astNodes, 1, heap)

\* ast.ts toCss: the text of the declarations, one after the other
RECURSIVE ToCss(_)
ToCss(decls) ==
    IF decls = <<>> THEN ""
    ELSE Head(decls).prop \o ":" \o Head(decls).val \o ";" \o ToCss(Tail(decls))

\* A flag declared once, outside the loop
LeakedFlag(previous) == previous

\* let wasInvalid = false, at the top of every iteration
FreshFlag(previous) == FALSE

\* The test with && for ||
EntryOutputBoth(astNodes, wasInvalid) ==
    IF Len(astNodes) = 0 /\ wasInvalid THEN Null ELSE Str(ToCss(astNodes))

\* if (astNodes.length === 0 || wasInvalid) null else toCss(astNodes)
EntryOutput(astNodes, wasInvalid) ==
    IF Len(astNodes) = 0 \/ wasInvalid THEN Null ELSE Str(ToCss(astNodes))

\* A loop that leaves out the entries without output
PushUnlessNull(result, output) ==
    IF output = Null THEN result ELSE Append(result, output)

\* result.push(...)
Push(result, output) == Append(result, output)

\* for (let className of classes) { ... }  return result: [st, ret, threw]
RECURSIVE CandidatesToCssFrom(_, _, _, _, _)
CandidatesToCssFrom(st, classes, i, result, flag) ==
    IF i > Len(classes) THEN [st |-> st, ret |-> result, threw |-> FALSE]
    ELSE LET Rest(c) ==
                 LET wasInvalid == FreshFlag(flag) \/ c.invalid
                     astNodes == OptimizeAst(c.astNodes, c.st.nodeValue)
                     Loop(pushed) ==
                         CandidatesToCssFrom(c.st, classes, i + 1, pushed, wasInvalid)
                 IN IF c.threw THEN [st |-> c.st, ret |-> Undefined, threw |-> TRUE]
                    ELSE Let(Push(result, EntryOutput(astNodes, wasInvalid)), Loop)
         IN Let(CompileCandidates(st, classes[i]), Rest)

CandidatesToCss(st, classes) == CandidatesToCssFrom(st, classes, 1, <<>>, FALSE)

----------------------------------------------------------------------------
(* The variant order resolver *)

\* The registry's rank of a variant
VariantRank(v) ==
    CASE v.str = "md" -> 1
      [] v.str = "hover" -> 2
      [] v.str = "focus" -> 2
      [] v.str = "lg" -> 3

\* variants.ts Variants.compare: a total preorder, null before every variant
Compare(a, z) ==
    IF a = z THEN 0
    ELSE IF a = Null THEN -1
    ELSE IF z = Null THEN 1
    ELSE IF VariantRank(a) < VariantRank(z) THEN -1
    ELSE IF VariantRank(a) > VariantRank(z) THEN 1
    ELSE 0

\* Array.from(parsedVariants.values()): the values in insertion order
Values(entries) == [i \in 1..Len(entries) |-> entries[i][2]]

\* The comparator with its arguments swapped
SortComparatorSwapped(a, z) == Compare(z, a)

\* The comparator handed to sort: (a, z) => this.variants.compare(a, z)
SortComparator(a, z) == Compare(a, z)

\* Array.prototype.sort, which is stable: x goes behind every element that
\* does not sort after it
RECURSIVE InsertSorted(_, _)
InsertSorted(sorted, x) ==
    IF sorted = <<>> THEN <<x>>
    ELSE IF SortComparator(sorted[Len(sorted)], x) <= 0 THEN Append(sorted, x)
    ELSE Append(InsertSorted(SubSeq(sorted, 1, Len(sorted) - 1), x),
                sorted[Len(sorted)])

RECURSIVE SortFrom(_, _, _)
SortFrom(array, i, sorted) ==
    IF i > Len(array) THEN sorted
    ELSE SortFrom(array, i + 1, InsertSorted(sorted, array[i]))

Sort(array) == SortFrom(array, 1, <<>>)

\* A new group for every variant
NextIndexAlways(prevVariant, variant, index) ==
    IF prevVariant # Undefined THEN index + 1 ELSE index

\* if (prevVariant !== undefined && this.variants.compare(prevVariant, variant) !== 0) index++
NextIndex(prevVariant, variant, index) ==
    IF prevVariant # Undefined /\ Compare(prevVariant, variant) # 0
    THEN index + 1 ELSE index

\* No variant is passed over
SkipNothing(variant) == FALSE

\* if (variant === null) continue
SkipVariant(variant) == variant = Null

\* A loop that sets prevVariant once, at the first variant
RECURSIVE AssignFromFirst(_, _, _, _, _)
AssignFromFirst(variants, i, order, prevVariant, index) ==
    IF i > Len(variants) THEN order
    ELSE IF SkipVariant(variants[i])
    THEN AssignFromFirst(variants, i + 1, order, prevVariant, index)
    ELSE LET idx == NextIndex(prevVariant, variants[i], index)
         IN AssignFromFirst(variants, i + 1, MapSet(order, variants[i], idx),
                            IF prevVariant = Undefined THEN variants[i] ELSE prevVariant,
                            idx)

\* for (let variant of variants) { ... }: the order map
RECURSIVE AssignFrom(_, _, _, _, _)
AssignFrom(variants, i, order, prevVariant, index) ==
    IF i > Len(variants) THEN order
    ELSE IF SkipVariant(variants[i])
    THEN AssignFrom(variants, i + 1, order, prevVariant, index)
    ELSE LET idx == NextIndex(prevVariant, variants[i], index)
         IN AssignFrom(variants, i + 1, MapSet(order, variants[i], idx),
                       variants[i], idx)

\* getVariantOrder()
GetVariantOrder(st) ==
    AssignFrom(Sort(Values(st.parsedVariants)), 1, <<>>, Undefined, 0)

----------------------------------------------------------------------------
(* The used-variable tracker *)

\* The tokens of value-parser.ts; a word's value is kept as the sequence of
\* its characters
Word(chars) == [kind |-> "word", value |-> chars]
Separator(text) == [kind |-> "separator", value |-> text]
Function(name, nodes) == [kind |-> "function", value |-> name, nodes |-> nodes]

\* value-parser.ts parse: the token tree of a raw value
ValueParse(raw) ==
    CASE raw = "var(--a, var(--b, red))" ->
            <<Function("var", <<Word(<<"-", "-", "a">>), Separator(","),
                                Function("var", <<Word(<<"-", "-", "b">>), Separator(","),
                                                  Word(<<"r", "e", "d">>)>>)>>)>>
      [] raw = "calc(--c + var(--a))" ->
            <<Function("calc", <<Word(<<"-", "-", "c">>), Separator(" "), Word(<<"+">>),
                                 Separator(" "),
                                 Function("var", <<Word(<<"-", "-", "a">>)>>)>>)>>
      [] raw = "--d red" ->
            <<Word(<<"-", "-", "d">>), Separator(" "), Word(<<"r", "e", "d">>)>>
      [] raw = "var(-x, calc(--b * 2))" ->
            <<Function("var", <<Word(<<"-", "x">>), Separator(","),
                                Function("calc", <<Word(<<"-", "-", "b">>), Separator(" "),
                                                   Word(<<"*">>), Separator(" "),
                                                   Word(<<"2">>)>>)>>)>>
      [] raw = "var(--a) var(--a)" ->
            <<Function("var", <<Word(<<"-", "-", "a">>)>>), Separator(" "),
              Function("var", <<Word(<<"-", "-", "a">>)>>)>>

\* The text of a sequence of characters or pieces
RECURSIVE Join(_)
Join(pieces) ==
    IF pieces = <<>> THEN "" ELSE pieces[1] \o Join(Tail(pieces))

\* value[i] of a string, 0-based: "" stands for undefined past the end
CharAt(value, i) == IF i + 1 <= Len(value) THEN value[i + 1] ELSE ""

\* Every word is reported
ReportsAnyWord(child) == child.kind = "word"

\* The inner visitor reports unless
\* child.kind !== 'word' || child.value[0] !== '-' || child.value[1] !== '-'
Reports(child) ==
    ~(child.kind # "word" \/ CharAt(child.value, 0) # "-" \/ CharAt(child.value, 1) # "-")

\* value-parser.ts walk: the children of a function are walked unless the
\* visitor answered Skip
Descends(node, status) == node.kind = "function" /\ status # "skip"

\* ValueParser.walk(node.nodes, (child) => { ... theme.markUsedVariable(child.value) })
RECURSIVE WalkInner(_, _, _)
WalkInner(nodes, i, used) ==
    IF i > Len(nodes) THEN used
    ELSE Let(IF Reports(nodes[i]) THEN Bump(used, Join(nodes[i].value)) ELSE used,
             LAMBDA marked :
                IF Descends(nodes[i], "continue")
                THEN Let(WalkInner(nodes[i].nodes, 1, marked),
                         LAMBDA inside : WalkInner(nodes, i + 1, inside))
                ELSE WalkInner(nodes, i + 1, marked))

\* The outer traversal goes on into the var() call
AfterVarContinue == "continue"

\* return ValueParser.ValueWalkAction.Skip
AfterVar == "skip"

\* if (node.kind !== 'function' || node.value !== 'var') return
IsVarCall(node) == ~(node.kind # "function" \/ node.value # "var")

\* ValueParser.walk(ValueParser.parse(raw), (node) => { ... })
RECURSIVE WalkOuter(_, _, _)
WalkOuter(nodes, i, used) ==
    IF i > Len(nodes) THEN used
    ELSE Let(IF IsVarCall(nodes[i]) THEN WalkInner(nodes[i].nodes, 1, used) ELSE used,
             LAMBDA visited :
                IF Descends(nodes[i], IF IsVarCall(nodes[i]) THEN AfterVar ELSE "continue")
                THEN Let(WalkOuter(nodes[i].nodes, 1, visited),
                         LAMBDA inside : WalkOuter(nodes, i + 1, inside))
                ELSE WalkOuter(nodes, i + 1, visited))

\* let trackUsedVariables = new DefaultMap((raw) => { ...; return true })
TrackUsedVariablesFactory(raw, used) == WalkOuter(ValueParse(raw), 1, used)

\* No raw value counts as tracked
TrackedNever(raw) == FALSE

\* trackUsedVariables.get(raw) finds a stored value
TrackedBefore(raw) == DefaultMapHas(trackedValues, raw)

----------------------------------------------------------------------------
(* The theme value resolver *)

\* String.prototype.trim: white space is dropped from both ends
RECURSIVE Trim(_)
Trim(pieces) ==
    IF pieces = <<>> THEN <<>>
    ELSE IF pieces[1] = " " THEN Trim(Tail(pieces))
    ELSE IF pieces[Len(pieces)] = " " THEN Trim(SubSeq(pieces, 1, Len(pieces) - 1))
    ELSE pieces

\* String.prototype.slice(from, to), on 1-based positions from..to
Slice(pieces, from, to) == SubSeq(pieces, from, to)

\* The position of the first "/"
IndexOfSlash(path) ==
    IF \E i \in 1..Len(path) : path[i] = "/"
    THEN CHOOSE i \in 1..Len(path) :
            path[i] = "/" /\ \A j \in 1..(i - 1) : path[j] # "/"
    ELSE 0

\* path.lastIndexOf('/'), 1-based: 0 stands for -1
LastIndexOfSlash(path) ==
    IF \E i \in 1..Len(path) : path[i] = "/"
    THEN CHOOSE i \in 1..Len(path) :
            path[i] = "/" /\ \A j \in (i + 1)..Len(path) : path[j] # "/"
    ELSE 0

\* theme.get([path]) ?? undefined
ThemeGet(key) == IF key \in DOMAIN Theme THEN Str(Theme[key]) ELSE Undefined

\* A value in a template string
Text(v) == IF v = Undefined THEN "undefined" ELSE IF v = Null THEN "null" ELSE v.text

\* utilities.ts withAlpha: the value with the given alpha applied
WithAlpha(value, alpha) ==
    Str("color-mix(in oklab, " \o Text(value) \o " " \o Text(alpha) \o ", transparent)")

\* JavaScript truthiness of a string, null or undefined
Truthy(v) == v # Null /\ v # Undefined /\ v.text # ""

\* The modifier alone decides
ApplyIfModifier(modifier, themeValue) == Truthy(modifier)

\* if (modifier && themeValue)
ApplyModifier(modifier, themeValue) == Truthy(modifier) /\ Truthy(themeValue)

\* resolveThemeValue(path)
ResolveThemeValue(path) ==
    LET lastSlash == LastIndexOfSlash(path)
        modifier == IF lastSlash # 0
                    THEN Str(Join(Trim(Slice(path, lastSlash + 1, Len(path)))))
                    ELSE Null
        key == IF lastSlash # 0
               THEN Join(Trim(Slice(path, 1, lastSlash - 1)))
               ELSE Join(path)
        themeValue == ThemeGet(key)
    IN IF ApplyModifier(modifier, themeValue)
       THEN WithAlpha(themeValue, modifier)
       ELSE themeValue

----------------------------------------------------------------------------
(* The state machine *)

NoCalls == [parseCandidate |-> <<>>, parseVariant |-> <<>>,
            compileAstNodes |-> <<>>, substituteFunctions |-> <<>>,
            valueParse |-> <<>>]

Init ==
    /\ parsedVariants = <<>>
    /\ parsedCandidates = <<>>
    /\ compiledAstNodes = <<>>
    /\ nodeValue = <<>>
    /\ trackedValues = <<>>
    /\ usedVariables = <<>>
    /\ variantOrders = <<>>
    /\ calls = NoCalls
    /\ firstResult = [parseCandidate |-> <<>>, parseVariant |-> <<>>]
    /\ last = [op |-> "init"]

\* Every collaborator has been invoked fewer than MaxCalls times on each input
Below(st) ==
    \A f \in DOMAIN NoCalls : \A k \in DOMAIN st.calls[f] : st.calls[f][k] < MaxCalls

Adopt(st) ==
    /\ parsedVariants' = st.parsedVariants
    /\ parsedCandidates' = st.parsedCandidates
    /\ compiledAstNodes' = st.compiledAstNodes
    /\ nodeValue' = st.nodeValue
    /\ calls' = st.calls

Remember(op, s, ret) ==
    firstResult' = IF s \in DOMAIN firstResult[op] THEN firstResult
                   ELSE [firstResult EXCEPT ![op] = MapSet(@, s, ret)]

\* parseCandidate(candidate: string) { return parsedCandidates.get(candidate) }
parseCandidate(s) ==
    /\ Below(State)
    /\ \E r \in {ParsedCandidatesGet(State, s)} :
          /\ Adopt(r.st)
          /\ Remember("parseCandidate", s, r.ret)
          /\ UNCHANGED <<trackedValues, usedVariables, variantOrders>>
          /\ last' = [op |-> "parseCandidate", arg |-> s, ret |-> r.ret, hit |-> r.hit]

\* parseVariant(variant: string) { return parsedVariants.get(variant) }
parseVariant(s) ==
    /\ Below(State)
    /\ \E r \in {ParsedVariantsGet(State, s)} :
          /\ Adopt(r.st)
          /\ Remember("parseVariant", s, r.ret)
          /\ UNCHANGED <<trackedValues, usedVariables, variantOrders>>
          /\ last' = [op |-> "parseVariant", arg |-> s, ret |-> r.ret, hit |-> r.hit]

\* The Candidate objects a caller can hold: those the parse cache returned
KnownCandidates ==
    UNION {{parsedCandidates[s].items[k] : k \in 1..Len(parsedCandidates[s].items)} :
           s \in DOMAIN parsedCandidates}

\* compileAstNodes(candidate: Candidate) { return compiledAstNodes.get(candidate) }
compileAstNodes(c) ==
    /\ Below(State)
    /\ \E r \in {CompiledAstNodesGet(State, c)} :
          /\ Adopt(r.st)
          /\ last' = [op |-> "compileAstNodes", arg |-> c, ret |-> r.ret,
                      hit |-> r.hit, threw |-> r.threw]
          /\ UNCHANGED <<firstResult, trackedValues, usedVariables, variantOrders>>

\* candidatesToCss(classes: string[])
candidatesToCss(classes) ==
    /\ Below(State)
    /\ \E r \in {CandidatesToCss(State, classes)} :
          /\ Adopt(r.st)
          /\ last' = [op |-> "candidatesToCss", arg |-> classes, ret |-> r.ret,
                      threw |-> r.threw]
          /\ UNCHANGED <<firstResult, trackedValues, usedVariables, variantOrders>>

\* An order taken after parsing a variant the registry knows
getVariantOrderParsing ==
    /\ \E r \in {ParsedVariantsGet(State, "md")} :
          /\ Adopt(r.st)
          /\ last' = [op |-> "getVariantOrder", ret |-> GetVariantOrder(r.st)]
          /\ variantOrders' = IF variantOrders = <<>> THEN <<GetVariantOrder(r.st)>>
                              ELSE <<variantOrders[Len(variantOrders)],
                                     GetVariantOrder(r.st)>>
    /\ UNCHANGED <<trackedValues, usedVariables, firstResult>>

\* getVariantOrder()
getVariantOrder ==
    /\ \E order \in {GetVariantOrder(State)} :
          /\ last' = [op |-> "getVariantOrder", ret |-> order]
          /\ variantOrders' = IF variantOrders = <<>> THEN <<order>>
                              ELSE <<variantOrders[Len(variantOrders)], order>>
    /\ UNCHANGED <<parsedVariants, parsedCandidates, compiledAstNodes, nodeValue,
                   trackedValues, usedVariables, calls, firstResult>>

\* resolveThemeValue(path)
resolveThemeValue(path) ==
    /\ last' = [op |-> "resolveThemeValue", arg |-> path, ret |-> ResolveThemeValue(path)]
    /\ UNCHANGED <<parsedVariants, parsedCandidates, compiledAstNodes, nodeValue,
                   trackedValues, usedVariables, calls, firstResult, variantOrders>>

\* trackUsedVariables(raw: string) { trackUsedVariables.get(raw) }
trackUsedVariables(raw) ==
    /\ Below(State)
    /\ IF TrackedBefore(raw)
       THEN /\ UNCHANGED <<trackedValues, usedVariables, calls>>
            /\ last' = [op |-> "trackUsedVariables", arg |-> raw, hit |-> TRUE]
       ELSE /\ \E used \in {TrackUsedVariablesFactory(raw, usedVariables)} :
                  usedVariables' = used
            /\ trackedValues' = MapSet(trackedValues, raw, TRUE)
            /\ calls' = [calls EXCEPT !.valueParse = Bump(@, raw)]
            /\ last' = [op |-> "trackUsedVariables", arg |-> raw, hit |-> FALSE]
    /\ UNCHANGED <<parsedVariants, parsedCandidates, compiledAstNodes, nodeValue,
                   firstResult, variantOrders>>

\* The batches handed to candidatesToCss
Batches == UNION {[1..n -> ClassNames] : n \in 0..MaxBatch}

Next ==
    \/ \E s \in ClassNames : parseCandidate(s)
    \/ \E s \in VariantStrings : parseVariant(s)
    \/ \E c \in KnownCandidates : compileAstNodes(c)
    \/ \E classes \in Batches : candidatesToCss(classes)
    \/ getVariantOrder
    \/ \E path \in Paths : resolveThemeValue(path)
    \/ \E raw \in RawValues : trackUsedVariables(raw)

Spec == Init /\ [][Next]_vars

(* The candidate side (parsedCandidates, compiledAstNodes, nodeValue) and   *)
(* the variant side (parsedVariants) share no cache: no operation of one    *)
(* reads or writes a cache of the other.  The specifications below take     *)
(* the operations of one side, or of the two parse caches, at a time.       *)

\* The operations on the candidate side
NextCandidates ==
    \/ \E s \in ClassNames : parseCandidate(s)
    \/ \E c \in KnownCandidates : compileAstNodes(c)
    \/ \E classes \in Batches : candidatesToCss(classes)

SpecCandidates == Init /\ [][NextCandidates]_vars

\* The operations on the parse caches
NextParse ==
    \/ \E s \in ClassNames : parseCandidate(s)
    \/ \E s \in VariantStrings : parseVariant(s)

SpecParse == Init /\ [][NextParse]_vars

\* The operations on the variant side
NextVariants ==
    \/ \E s \in VariantStrings : parseVariant(s)
    \/ getVariantOrder

SpecVariants == Init /\ [][NextVariants]_vars

\* The theme value resolver, which reads the theme only
NextTheme == \E path \in Paths : resolveThemeValue(path)

SpecTheme == Init /\ [][NextTheme]_vars

\* The used-variable tracker, which writes its own cache and the theme's marks
NextTracker == \E raw \in RawValues : trackUsedVariables(raw)

SpecTracker == Init /\ [][NextTracker]_vars

\* Every operation, each on a few of its inputs, so that the caches of both
\* sides, the tracker and the two readers meet in one behaviour
SomeClassNames == {"bg-[theme(--c)]", "text-[theme(--x)]"}
SomeVariantStrings == {"hover", "??"}
SomeRawValues == {"var(--a, var(--b, red))", "--d red"}
SomePaths == {<<"--c">>, <<"--c", "/", "50%">>}
SomeBatches == UNION {[1..n -> SomeClassNames] : n \in 0..(MaxBatch - 1)}

NextCaches ==
    \/ \E s \in SomeClassNames : parseCandidate(s)
    \/ \E s \in SomeVariantStrings : parseVariant(s)
    \/ \E c \in KnownCandidates : compileAstNodes(c)
    \/ \E classes \in SomeBatches : candidatesToCss(classes)
    \/ getVariantOrder
    \/ \E path \in SomePaths : resolveThemeValue(path)
    \/ \E raw \in SomeRawValues : trackUsedVariables(raw)

SpecCaches == Init /\ [][NextCaches]_vars

----------------------------------------------------------------------------
(* The parse caches: claims *)

\* C1: every call of parseCandidate(s) returns the very object the first call
\* with s returned, every call of parseVariant(s) the very Variant (or null)
\* the first call returned, and the entry stored for s stays that first result.
C1_ParseReturnsFirstResult ==
    /\ \A s \in DOMAIN firstResult.parseCandidate :
          /\ s \in DOMAIN parsedCandidates
          /\ parsedCandidates[s] = firstResult.parseCandidate[s]
    /\ \A s \in DOMAIN firstResult.parseVariant :
          /\ s \in SeqKeys(parsedVariants)
          /\ SeqLookup(parsedVariants, s) = firstResult.parseVariant[s]
    /\ last.op = "parseCandidate" => last.ret = firstResult.parseCandidate[last.arg]
    /\ last.op = "parseVariant" => last.ret = firstResult.parseVariant[last.arg]

\* A repeated parseCandidate call on an ambiguous class name, after a variant
\* and an unparseable variant string were parsed
C1_Witness ==
    /\ last.op = "parseCandidate" /\ last.hit
    /\ Len(last.ret.items) = 2
    /\ last.ret = firstResult.parseCandidate[last.arg]
    /\ {"hover", "??"} \subseteq DOMAIN firstResult.parseVariant

\* C2: the external parser is invoked at most once per distinct string: once
\* for a string that has an entry, never for one that has none, also when the
\* entry is the empty sequence or null; a repeat request invokes nothing.
C2_ParserInvokedOnce ==
    /\ \A s \in ClassNames :
          Count(calls.parseCandidate, s) = IF s \in DOMAIN parsedCandidates THEN 1 ELSE 0
    /\ \A s \in VariantStrings :
          Count(calls.parseVariant, s) = IF s \in SeqKeys(parsedVariants) THEN 1 ELSE 0
    /\ last.op = "parseCandidate" =>
          /\ Count(calls.parseCandidate, last.arg) = 1
          /\ last.ret = parsedCandidates[last.arg]
    /\ last.op = "parseVariant" =>
          /\ Count(calls.parseVariant, last.arg) = 1
          /\ last.ret = SeqLookup(parsedVariants, last.arg)

\* A repeated parseVariant call whose stored result is null, with the empty
\* sequence stored for an unparseable class name
C2_Witness ==
    /\ last.op = "parseVariant" /\ last.hit /\ last.ret = Null
    /\ calls.parseVariant[last.arg] = 1
    /\ "garbage-!!" \in DOMAIN parsedCandidates
    /\ parsedCandidates["garbage-!!"].items = <<>>
    /\ calls.parseCandidate["garbage-!!"] = 1

----------------------------------------------------------------------------
(* The compiled-AST cache: claims *)

\* Substitution fails on the nodes the compiler makes for candidate c
SubstitutionFails(c) ==
    \E i \in 1..Len(CompileExt(c)) : ~CanSubstitute(CompileExt(c)[i])

\* C3: however often compileAstNodes is called on a Candidate object, the
\* compiler and the substitution run once for it, whether or not the
\* substitution failed; every Candidate object has its own entry.
C3_CompiledOncePerCandidate ==
    /\ \A c \in DOMAIN calls.compileAstNodes : calls.compileAstNodes[c] = 1
    /\ \A c \in DOMAIN calls.substituteFunctions : calls.substituteFunctions[c] = 1
    /\ \A c \in DOMAIN compiledAstNodes :
          Count(calls.compileAstNodes, c) = 1 /\ Count(calls.substituteFunctions, c) = 1
    /\ last.op = "compileAstNodes" =>
          /\ Count(calls.compileAstNodes, last.arg) = 1
          /\ Count(calls.substituteFunctions, last.arg) = 1

\* A repeated compileAstNodes call on a candidate whose substitution failed,
\* with the two candidates of one class name both compiled
C3_Witness ==
    /\ last.op = "compileAstNodes" /\ last.hit
    /\ SubstitutionFails(last.arg)
    /\ calls.compileAstNodes[last.arg] = 1
    /\ \E c1, c2 \in DOMAIN compiledAstNodes :
          c1 # c2 /\ c1.str = c2.str
          /\ calls.compileAstNodes[c1] = 1 /\ calls.compileAstNodes[c2] = 1

\* C4: a compileAstNodes call signals no error; when the substitution fails it
\* returns and stores the empty sequence, none of the compiler's nodes; when it
\* succeeds it returns and stores the compiler's nodes, each substituted.
C4_FailureYieldsEmpty ==
    last.op = "compileAstNodes" =>
        /\ ~last.threw
        /\ last.arg \in DOMAIN compiledAstNodes
        /\ compiledAstNodes[last.arg] = last.ret
        /\ IF SubstitutionFails(last.arg)
           THEN last.ret = <<>>
           ELSE /\ Len(last.ret) = Len(CompileExt(last.arg))
                /\ \A i \in 1..Len(last.ret) :
                      /\ last.ret[i].cand = last.arg /\ last.ret[i].idx = i
                      /\ nodeValue[last.ret[i]] = Substituted(CompileExt(last.arg)[i])

\* A compileAstNodes call whose substitution failed after it had rewritten a
\* node: the result is empty although a substituted node exists
C4_Witness ==
    /\ last.op = "compileAstNodes" /\ ~last.hit
    /\ SubstitutionFails(last.arg)
    /\ last.ret = <<>>
    /\ \E n \in DOMAIN nodeValue :
          n.cand = last.arg /\ nodeValue[n] # CompileExt(last.arg)[n.idx]

\* Candidate c yields no nodes: the compiler makes none or the substitution fails
YieldsNoNodes(c) == CompileExt(c) = <<>> \/ SubstitutionFails(c)

\* C5: a candidate whose compilation or substitution failed has the empty
\* sequence stored and was attempted once; compileAstNodes and candidatesToCss
\* raise no error, and the outcome of the failure is the empty sequence, or
\* null for a class name all of whose candidates fail.
C5_FailureStaysLocal ==
    /\ \A c \in DOMAIN calls.compileAstNodes :
          YieldsNoNodes(c) =>
              /\ c \in DOMAIN compiledAstNodes
              /\ compiledAstNodes[c] = <<>>
              /\ calls.compileAstNodes[c] = 1
    /\ last.op = "compileAstNodes" =>
          /\ ~last.threw
          /\ YieldsNoNodes(last.arg) => last.ret = <<>>
    /\ last.op = "candidatesToCss" =>
          /\ ~last.threw
          /\ \A i \in 1..Len(last.arg) :
                (\A k \in 1..Len(ParseCandidateExt(last.arg[i])) :
                    YieldsNoNodes(Candidate(last.arg[i], k, 1)))
                => last.ret[i] = Null

\* A candidatesToCss call on a batch with a class name whose substitution
\* fails, after which its candidate is stored as empty
C5_Witness ==
    /\ last.op = "candidatesToCss" /\ ~last.threw
    /\ \E i \in 1..Len(last.arg) :
          /\ last.arg[i] = "text-[theme(--x)]"
          /\ last.ret[i] = Null
          /\ compiledAstNodes[Candidate(last.arg[i], 1, 1)] = <<>>

----------------------------------------------------------------------------
(* The batch facade: claims *)

\* C6: candidatesToCss returns one output per input, in input order: the
\* result is as long as the batch, and its i-th output is the output of the
\* i-th class name.
C6_OneOutputPerInput ==
    last.op = "candidatesToCss" =>
        /\ Len(last.ret) = Len(last.arg)
        /\ \A i \in 1..Len(last.arg) :
              CandidatesToCss(State, <<last.arg[i]>>).ret = <<last.ret[i]>>

\* A batch of two whose first entry has no output and whose second has one
C6_Witness ==
    /\ last.op = "candidatesToCss"
    /\ Len(last.arg) = 2 /\ Len(last.ret) = 2
    /\ last.ret[1] = Null /\ last.ret[2] # Null

\* A design system on which nothing was called yet
FreshState == [parsedVariants |-> <<>>, parsedCandidates |-> <<>>,
               compiledAstNodes |-> <<>>, nodeValue |-> <<>>, calls |-> NoCalls]

\* C7: the output for an entry of a batch is the output its class name yields
\* alone on a fresh design system, whatever the other entries are, wherever
\* the entry stands and whatever was called before; an invalid entry does not
\* make a later entry null.
C7_BatchIndependence ==
    last.op = "candidatesToCss" =>
        /\ Len(last.ret) = Len(last.arg)
        /\ \A i \in 1..Len(last.arg) :
              last.ret[i] = CandidatesToCss(FreshState, <<last.arg[i]>>).ret[1]

\* A batch in which a valid class name follows an unparseable one and has
\* its output, on a design system that had parsed class names before
C7_Witness ==
    /\ last.op = "candidatesToCss" /\ Len(last.arg) = 2
    /\ last.arg[1] = "garbage-!!" /\ last.ret[1] = Null
    /\ last.arg[2] = "bg-[theme(--c)]" /\ last.ret[2] # Null
    /\ DOMAIN firstResult.parseCandidate # {}

\* C8: the output for an entry is null exactly when the optimization of the
\* entry's compiled nodes leaves no node or the invalid-candidate callback
\* fired for the entry; otherwise it is the CSS text of the optimized nodes.
C8_NullIffEmptyOrInvalid ==
    last.op = "candidatesToCss" =>
        /\ Len(last.ret) = Len(last.arg)
        /\ \A i \in 1..Len(last.arg) :
              LET c == CompileCandidates(State, last.arg[i])
                  optimized == OptimizeAst(c.astNodes, c.st.nodeValue)
              IN /\ last.ret[i] = Null <=> (Len(optimized) = 0 \/ c.invalid)
                 /\ last.ret[i] # Null => last.ret[i] = Str(ToCss(optimized))

\* A batch with an entry whose nodes are all optimized away although the
\* callback did not fire, and an entry with CSS text
C8_Witness ==
    /\ last.op = "candidatesToCss"
    /\ \E i, j \in 1..Len(last.arg) :
          /\ last.arg[i] = "[--v:]" /\ last.ret[i] = Null
          /\ ~CompileCandidates(State, last.arg[i]).invalid
          /\ last.ret[j] = Str("background-color:red;")

----------------------------------------------------------------------------
(* The variant order resolver: claims *)

\* The cached variants, null left out, in sorted order
SortedVariants == SelectSeq(Sort(Values(parsedVariants)), LAMBDA v : v # Null)

\* C9: the first sorted variant has index 0, every later one its
\* predecessor's index if the comparator reports the two equivalent and one
\* more otherwise; so two variants have the same index iff they compare as 0,
\* a smaller one iff they compare below 0, and the indices are 0..k-1 for k
\* groups of equivalent variants.
C9_GroupIndices ==
    last.op = "getVariantOrder" =>
        LET order == last.ret
            sorted == SortedVariants
            groups == {{b \in DOMAIN order : Compare(a, b) = 0} : a \in DOMAIN order}
        IN /\ DOMAIN order = {sorted[i] : i \in 1..Len(sorted)}
           /\ \A i \in 1..Len(sorted) :
                 order[sorted[i]] =
                     IF i = 1 THEN 0
                     ELSE IF Compare(sorted[i - 1], sorted[i]) = 0
                     THEN order[sorted[i - 1]]
                     ELSE order[sorted[i - 1]] + 1
           /\ \A a, b \in DOMAIN order :
                 /\ order[a] = order[b] <=> Compare(a, b) = 0
                 /\ order[a] < order[b] <=> Compare(a, b) < 0
           /\ {order[a] : a \in DOMAIN order} = 0..(Cardinality(groups) - 1)

\* A getVariantOrder call with four variants in three groups and a null in
\* the cache
C9_Witness ==
    /\ last.op = "getVariantOrder"
    /\ Cardinality(DOMAIN last.ret) = 4
    /\ {last.ret[a] : a \in DOMAIN last.ret} = {0, 1, 2}
    /\ "??" \in SeqKeys(parsedVariants)

\* C10 as stated: of three variants with compare(a, b) = 0 and
\* compare(b, c) > 0, a and b have the same index and c a greater one.
C10_AsStated ==
    last.op = "getVariantOrder" =>
        \A a, b, c \in DOMAIN last.ret :
            (a # b /\ Compare(a, b) = 0 /\ Compare(b, c) > 0)
            => (last.ret[a] = last.ret[b] /\ last.ret[c] > last.ret[b])

\* C10, amended: of three variants with compare(a, b) = 0 and
\* compare(b, c) > 0, a and b have the same index and c a smaller one.
C10_GroupingAmended ==
    last.op = "getVariantOrder" =>
        \A a, b, c \in DOMAIN last.ret :
            (a # b /\ Compare(a, b) = 0 /\ Compare(b, c) > 0)
            => (last.ret[a] = last.ret[b] /\ last.ret[c] < last.ret[b])

\* A getVariantOrder call with two equivalent variants and one that sorts
\* before them
C10_Witness ==
    /\ last.op = "getVariantOrder"
    /\ \E a, b, c \in DOMAIN last.ret :
          a # b /\ Compare(a, b) = 0 /\ Compare(b, c) > 0

\* The variants the parse cache holds that are not null
CachedVariants ==
    {parsedVariants[i][2] : i \in 1..Len(parsedVariants)} \ {Null}

\* C11: the keys of the map getVariantOrder returns are exactly the variants
\* in the variant parse cache that are not null: every variant a parseVariant
\* call has produced is a key, null is never a key, and a string that was
\* never parsed contributes no key.
C11_KeysAreCachedVariants ==
    last.op = "getVariantOrder" =>
        /\ DOMAIN last.ret = CachedVariants
        /\ Null \notin DOMAIN last.ret
        /\ \A s \in VariantStrings :
              /\ (s \in DOMAIN firstResult.parseVariant
                   /\ firstResult.parseVariant[s] # Null)
                 => firstResult.parseVariant[s] \in DOMAIN last.ret
              /\ s \notin DOMAIN firstResult.parseVariant
                 => \A v \in DOMAIN last.ret : v.str # s

\* The order was taken with a variant, the null result of "??" and an
\* unparsed string
C11_Witness ==
    /\ last.op = "getVariantOrder"
    /\ "??" \in SeqKeys(parsedVariants)
    /\ "hover" \in SeqKeys(parsedVariants)
    /\ "md" \notin SeqKeys(parsedVariants)
    /\ DOMAIN last.ret # {}

----------------------------------------------------------------------------
(* The theme value resolver: claims *)

\* The positions of the pieces of a text that are not white space
Inked(pieces) == {i \in 1..Len(pieces) : pieces[i] # " "}

\* The text of the pieces from the first to the last that is not white space
Trimmed(pieces) ==
    IF Inked(pieces) = {} THEN ""
    ELSE Join(SubSeq(pieces,
                     CHOOSE i \in Inked(pieces) : \A j \in Inked(pieces) : i <= j,
                     CHOOSE i \in Inked(pieces) : \A j \in Inked(pieces) : i >= j))

\* The positions of "/" in a path
Slashes(path) == {i \in 1..Len(path) : path[i] = "/"}

\* The text after the last "/" and the text before it, both trimmed
ModifierText(path) ==
    LET i == CHOOSE i \in Slashes(path) : \A j \in Slashes(path) : i >= j
    IN Trimmed(SubSeq(path, i + 1, Len(path)))

LookupPath(path) ==
    IF Slashes(path) = {} THEN Join(path)
    ELSE LET i == CHOOSE i \in Slashes(path) : \A j \in Slashes(path) : i >= j
         IN Trimmed(SubSeq(path, 1, i - 1))

\* C12: resolveThemeValue returns undefined whenever the theme has no entry
\* for the lookup path (the trimmed part before the last "/", or the whole
\* path when it holds no "/"), with or without a modifier.
C12_AbsentIsUndefined ==
    (last.op = "resolveThemeValue" /\ LookupPath(last.arg) \notin DOMAIN Theme)
        => last.ret = Undefined

\* "--c--c/50%": no entry for --c--c, and a modifier is supplied
C12_Witness ==
    /\ last.op = "resolveThemeValue"
    /\ last.arg = <<"--c", "--c", "/", "50%">>
    /\ last.ret = Undefined

\* C13 as stated: when the lookup path is found, the result is
\* withAlpha(value, modifier) whenever the argument contains a "/", and the
\* raw value when it contains none.
C13_AsStated ==
    (last.op = "resolveThemeValue" /\ LookupPath(last.arg) \in DOMAIN Theme)
        => last.ret = IF Slashes(last.arg) # {}
                      THEN WithAlpha(Str(Theme[LookupPath(last.arg)]),
                                     Str(ModifierText(last.arg)))
                      ELSE Str(Theme[LookupPath(last.arg)])

\* C13, amended: the argument is split at its last "/"; the result is
\* withAlpha(value, modifier) when the lookup path is found with a value that
\* is not empty and the trimmed text after the last "/" is not empty; it is
\* the raw value when the lookup path is found and there is no "/", the
\* modifier is empty or the value is empty; it is undefined otherwise.
C13_SplitAtLastSlash ==
    last.op = "resolveThemeValue" =>
        last.ret =
            IF LookupPath(last.arg) \notin DOMAIN Theme THEN Undefined
            ELSE IF /\ Slashes(last.arg) # {}
                    /\ ModifierText(last.arg) # ""
                    /\ Theme[LookupPath(last.arg)] # ""
            THEN WithAlpha(Str(Theme[LookupPath(last.arg)]), Str(ModifierText(last.arg)))
            ELSE Str(Theme[LookupPath(last.arg)])

\* "--c / 50%" resolved, with the alpha applied to the value of --c
C13_Witness ==
    /\ last.op = "resolveThemeValue"
    /\ last.arg = <<"--c", " ", "/", "50%">>
    /\ last.ret = WithAlpha(Str("red"), Str("50%"))

----------------------------------------------------------------------------
(* The used-variable tracker: claims *)

\* A word that begins with the custom-property sigil "--"
IsCustomProperty(node) ==
    /\ node.kind = "word" /\ Len(node.value) >= 2
    /\ node.value[1] = "-" /\ node.value[2] = "-"

\* How often the custom property `name` occurs in a token sequence, counting
\* the occurrences inside a var() call only (insideVar: the sequence itself
\* lies inside one)
RECURSIVE OccurrencesIn(_, _, _)
OccurrencesIn(nodes, name, insideVar) ==
    IF nodes = <<>> THEN 0
    ELSE (IF insideVar /\ IsCustomProperty(nodes[1]) /\ Join(nodes[1].value) = name
          THEN 1 ELSE 0)
         + (IF nodes[1].kind = "function"
            THEN OccurrencesIn(nodes[1].nodes, name, insideVar \/ nodes[1].value = "var")
            ELSE 0)
         + OccurrencesIn(Tail(nodes), name, insideVar)

RECURSIVE OccurrencesOver(_, _)
OccurrencesOver(raws, name) ==
    IF raws = {} THEN 0
    ELSE LET raw == CHOOSE r \in raws : TRUE
         IN OccurrencesIn(ValueParse(raw), name, FALSE)
            + OccurrencesOver(raws \ {raw}, name)

\* The words of the raw values, as texts
WordTexts == {"--a", "--b", "--c", "--d", "-x", "red", "+", "*", "2"}

\* C14: a scan reports every custom property inside a var() call, a nested
\* var() call included, exactly once per occurrence: the theme has got each
\* variable as often as it occurs inside var() calls in the raw values scanned,
\* so after var(--a, var(--b, red)) alone --a and --b are marked once each.
C14_OncePerOccurrence ==
    /\ \A name \in WordTexts \cup DOMAIN usedVariables :
          Count(usedVariables, name) = OccurrencesOver(DOMAIN trackedValues, name)
    /\ DOMAIN trackedValues = {"var(--a, var(--b, red))"}
          => usedVariables = [name \in {"--a", "--b"} |-> 1]

\* var(--a, var(--b, red)) has been scanned, alone
C14_Witness ==
    /\ last.op = "trackUsedVariables" /\ ~last.hit
    /\ last.arg = "var(--a, var(--b, red))"
    /\ DOMAIN trackedValues = {"var(--a, var(--b, red))"}
    /\ Count(usedVariables, "--a") = 1 /\ Count(usedVariables, "--b") = 1

\* The custom properties a raw value refers to
Referenced(raw) == {name \in WordTexts : OccurrencesIn(ValueParse(raw), name, FALSE) > 0}

\* C15: a raw value is tokenized and scanned on the first call with it only; a
\* call with a raw value tracked before scans nothing and marks nothing; the
\* variables reported so far are those the raw values tracked so far refer to.
C15_ScannedOncePerRawValue ==
    /\ [](/\ \A raw \in RawValues :
                Count(calls.valueParse, raw) = IF raw \in DOMAIN trackedValues THEN 1 ELSE 0
          /\ DOMAIN usedVariables = UNION {Referenced(raw) : raw \in DOMAIN trackedValues})
    /\ [][(last'.op = "trackUsedVariables" /\ last'.arg \in DOMAIN trackedValues)
             => /\ usedVariables' = usedVariables
                /\ calls' = calls
                /\ trackedValues' = trackedValues]_vars

\* A raw value that refers to variables has been tracked a second time, among
\* other raw values
C15_Witness ==
    /\ last.op = "trackUsedVariables" /\ last.hit
    /\ last.arg = "var(--a) var(--a)"
    /\ Cardinality(DOMAIN trackedValues) >= 2
    /\ Count(usedVariables, "--a") >= 2

\* The words of a token sequence, each with whether it lies inside a var() call
RECURSIVE WordsIn(_, _)
WordsIn(nodes, insideVar) ==
    IF nodes = <<>> THEN {}
    ELSE (IF nodes[1].kind = "word" THEN {<<nodes[1], insideVar>>} ELSE {})
         \cup (IF nodes[1].kind = "function"
               THEN WordsIn(nodes[1].nodes, insideVar \/ nodes[1].value = "var")
               ELSE {})
         \cup WordsIn(Tail(nodes), insideVar)

TrackedWords == UNION {WordsIn(ValueParse(raw), FALSE) : raw \in DOMAIN trackedValues}

\* C17: the theme is told of words only that begin with "--" and lie inside a
\* var() call: a word outside every var() call (--d at top level, --c inside
\* calc()) and a word inside var() without the sigil (-x, red) are not reported.
C17_OnlyCustomPropertiesInVar ==
    /\ DOMAIN usedVariables \subseteq
          {Join(w[1].value) : w \in {x \in TrackedWords : x[2] /\ IsCustomProperty(x[1])}}
    /\ \A w \in TrackedWords :
          (~IsCustomProperty(w[1])
           \/ \A x \in TrackedWords : x[1] = w[1] => ~x[2])
             => Join(w[1].value) \notin DOMAIN usedVariables

\* Every raw value has been scanned: --a and --b are reported, and the words
\* outside var() and without the sigil were met
C17_Witness ==
    /\ DOMAIN trackedValues = RawValues
    /\ DOMAIN usedVariables = {"--a", "--b"}
    /\ \E w \in TrackedWords : Join(w[1].value) = "--c" /\ ~w[2]
    /\ \E w \in TrackedWords : Join(w[1].value) = "-x" /\ w[2]

----------------------------------------------------------------------------
(* The caches together: claims *)

\* C16: the four caches (variant parse, candidate parse, compiled AST, used
\* variable scan) only grow: no step removes an entry and no step replaces the
\* value of an entry, whatever operation is called.
C16_CachesAppendOnly ==
    [][/\ Len(parsedVariants') >= Len(parsedVariants)
       /\ \A i \in 1..Len(parsedVariants) : parsedVariants'[i] = parsedVariants[i]
       /\ \A s \in DOMAIN parsedCandidates :
             s \in DOMAIN parsedCandidates' /\ parsedCandidates'[s] = parsedCandidates[s]
       /\ \A c \in DOMAIN compiledAstNodes :
             c \in DOMAIN compiledAstNodes' /\ compiledAstNodes'[c] = compiledAstNodes[c]
       /\ \A raw \in DOMAIN trackedValues :
             raw \in DOMAIN trackedValues' /\ trackedValues'[raw] = trackedValues[raw]]_vars

\* Every cache holds an entry, the compiled-AST cache two, and a batch was
\* answered from them
C16_Witness ==
    /\ Len(parsedVariants) >= 2
    /\ Cardinality(DOMAIN parsedCandidates) >= 2
    /\ Cardinality(DOMAIN compiledAstNodes) >= 2
    /\ Cardinality(DOMAIN trackedValues) >= 2
    /\ last.op = "candidatesToCss"

\* The declarations the nodes of a compiled result hold
NodeValues(nodes, heap) == [i \in 1..Len(nodes) |-> heap[nodes[i]]]

\* The declarations a first compilation on a new design system yields
CompiledAlone(c) ==
    LET r == CompiledAstNodesGet(FreshState, c)
    IN NodeValues(r.ret, r.st.nodeValue)

\* C18: a compileAstNodes call whose substitution fails changes the caches by
\* the one entry candidate -> [] only: the parse caches, the scan cache, every
\* other compiled-AST entry and the nodes those entries hold stay as they
\* were; the nodes cached for a valid candidate are, at any time, those its
\* compilation yields when no other candidate was ever compiled.
C18_FailureLeavesCachesIntact ==
    /\ [][(/\ last'.op = "compileAstNodes"
            /\ SubstitutionFails(last'.arg)
            /\ last'.arg \notin DOMAIN compiledAstNodes)
           => /\ parsedVariants' = parsedVariants
              /\ parsedCandidates' = parsedCandidates
              /\ trackedValues' = trackedValues
              /\ compiledAstNodes' = MapSet(compiledAstNodes, last'.arg, <<>>)
              /\ \A c \in DOMAIN compiledAstNodes :
                    NodeValues(compiledAstNodes[c], nodeValue')
                        = NodeValues(compiledAstNodes[c], nodeValue)]_vars
    /\ [](\A c \in DOMAIN compiledAstNodes :
             ~SubstitutionFails(c)
                => NodeValues(compiledAstNodes[c], nodeValue) = CompiledAlone(c))

\* A candidate's substitution has just failed, on a design system that holds
\* the nodes of a valid candidate and a parsed variant
C18_Witness ==
    /\ last.op = "compileAstNodes" /\ ~last.hit
    /\ SubstitutionFails(last.arg) /\ last.ret = <<>>
    /\ \E c \in DOMAIN compiledAstNodes : compiledAstNodes[c] # <<>>
    /\ parsedVariants # <<>>

\* C19: of two maps getVariantOrder returned one after the other, with any
\* parseVariant calls in between, the later one holds every variant of the
\* earlier one and orders them alike: a smaller index stays smaller and an
\* equal index stays equal, though the indices themselves may have changed.
C19_RelativeOrderStable ==
    Len(variantOrders) = 2 =>
        \A a, b \in DOMAIN variantOrders[1] :
            /\ a \in DOMAIN variantOrders[2]
            /\ variantOrders[1][a] < variantOrders[1][b]
                  => variantOrders[2][a] < variantOrders[2][b]
            /\ variantOrders[1][a] = variantOrders[1][b]
                  => variantOrders[2][a] = variantOrders[2][b]

\* Between two calls a variant was parsed that sorts before two others, of
\* different groups, whose indices moved
C19_Witness ==
    /\ Len(variantOrders) = 2
    /\ \E a, b \in DOMAIN variantOrders[1] :
          /\ variantOrders[1][a] < variantOrders[1][b]
          /\ variantOrders[2][a] # variantOrders[1][a]
          /\ variantOrders[2][b] # variantOrders[1][b]
    /\ \E a, b \in DOMAIN variantOrders[1] :
          a # b /\ variantOrders[1][a] = variantOrders[1][b]

\* C20: getVariantOrder and resolveThemeValue write no cache and invoke no
\* parser, compiler or scan; getVariantOrder called twice with no call in
\* between, or with calls in between that parse no new variant, returns
\* equal maps.
C20_ReadersWriteNothing ==
    /\ [][last'.op \in {"getVariantOrder", "resolveThemeValue"}
            => /\ parsedVariants' = parsedVariants
               /\ parsedCandidates' = parsedCandidates
               /\ compiledAstNodes' = compiledAstNodes
               /\ nodeValue' = nodeValue
               /\ trackedValues' = trackedValues
               /\ usedVariables' = usedVariables
               /\ calls' = calls]_vars
    /\ [][(last.op = "getVariantOrder" /\ last'.op = "getVariantOrder")
            => last'.ret = last.ret]_vars
    /\ []((Len(variantOrders) = 2 /\ DOMAIN variantOrders[1] = DOMAIN variantOrders[2])
            => variantOrders[1] = variantOrders[2])

\* getVariantOrder was called twice on filled caches, and returned the same
\* map with a variant in it
C20_Witness ==
    /\ last.op = "getVariantOrder"
    /\ Len(variantOrders) = 2 /\ variantOrders[1] = variantOrders[2]
    /\ DOMAIN variantOrders[2] # {}
    /\ DOMAIN compiledAstNodes # {} /\ DOMAIN trackedValues # {}

====
